---- MODULE Spec2Model ----
(***************************************************************************)
(* Model of nerfstudio/models/depth_nerfacto.py: DepthNerfactoModel, the   *)
(* depth-supervised extension of the nerfacto model.                       *)
(*                                                                         *)
(* Numbers.  The configuration holds Python floats (float64); the values   *)
(* the model draws are rationals <<n, d>> in lowest terms that float64     *)
(* holds exactly.  The sigma state is a float32 tensor: populate_modules   *)
(* and _get_sigma round to float32 (24-bit significand, round to nearest,  *)
(* ties to even), and the model computes these roundings bit for bit.      *)
(* Exponents stay far from the float32 limits for the values drawn, so     *)
(* overflow and subnormals are not modelled.  The loss values, which come  *)
(* from external functions, are combined with exact rational arithmetic.   *)
(*                                                                         *)
(* Tensors.  A tensor passed through to an external function (weights,     *)
(* ray samples, depth images) is modelled by an identity (a small          *)
(* integer); the value an external loss function returns for it is an      *)
(* input of the action that calls it.                                      *)
(*                                                                         *)
(* Dicts.  A Python dict is a function from its keys to values.  None is   *)
(* the function with the empty domain; every dict of the program carries   *)
(* at least one key of the base model.                                     *)
(***************************************************************************)
EXTENDS Integers, Sequences, FiniteSets, TLC

(***************************************************************************)
(* Rational arithmetic                                                     *)
(***************************************************************************)
Abs(x) == IF x < 0 THEN -x ELSE x

RECURSIVE GCD(_, _)
GCD(a, b) == IF b = 0 THEN a ELSE GCD(b, a % b)

Rat(n, d) ==
    LET g == GCD(Abs(n), Abs(d))
        s == IF d < 0 THEN -1 ELSE 1
    IN  <<(s * n) \div g, (s * d) \div g>>

RInt(n) == <<n, 1>>
RMul(a, b) == Rat(a[1] * b[1], a[2] * b[2])
RAdd(a, b) == Rat(a[1] * b[2] + b[1] * a[2], a[2] * b[2])
RDivInt(a, n) == Rat(a[1], a[2] * n)
RSub(a, b) == Rat(a[1] * b[2] - b[1] * a[2], a[2] * b[2])
RLe(a, b) == a[1] * b[2] <= b[1] * a[2]
RLt(a, b) == a[1] * b[2] < b[1] * a[2]

Zero == RInt(0)

(***************************************************************************)
(* float32 arithmetic of the sigma tensor                                  *)
(*                                                                         *)
(* A float32 value is <<m, e>>, standing for m * 2^e, with                 *)
(* 2^23 <= |m| < 2^24, or <<0, 0>> for zero.                               *)
(***************************************************************************)
\* 2^k for k in 0..30.
Pow2Table ==
    <<1, 2, 4, 8, 16, 32, 64, 128, 256, 512, 1024, 2048, 4096, 8192, 16384,
      32768, 65536, 131072, 262144, 524288, 1048576, 2097152, 4194304,
      8388608, 16777216, 33554432, 67108864, 134217728, 268435456,
      536870912, 1073741824>>
Pow2(k) == Pow2Table[k + 1]

\* The number of bits of n, 0 < n < 2^31.
BitLen(n) ==
    IF n >= Pow2(30) THEN 31
    ELSE CHOOSE b \in 1..30 : n < Pow2(b) /\ n >= Pow2(b - 1)

F32Zero == <<0, 0>>

\* q * 2^e with q a 24-bit quotient and r the remainder out of 2 * half,
\* rounded to nearest, ties to even.
F32RoundQuotient(q, r, half, e) ==
    LET up == r > half \/ (r = half /\ q % 2 = 1)
        q1 == IF up THEN q + 1 ELSE q
    IN  IF q1 = Pow2(24) THEN <<Pow2(23), e + 1>> ELSE <<q1, e>>

\* n * 2^e, 0 <= n < 2^31, rounded to float32.
F32Round(n, e) ==
    IF n = 0 THEN F32Zero
    ELSE LET b == BitLen(n)
         IN  IF b <= 24
             THEN <<n * Pow2(24 - b), e - (24 - b)>>
             ELSE LET sh == b - 24
                  IN  F32RoundQuotient(n \div Pow2(sh), n % Pow2(sh), Pow2(sh - 1), e + sh)

F32Neg(a) == <<-a[1], a[2]>>

\* The float32 nearest to a configured float n / 2^k: torch.tensor([x]), and
\* the Python scalar of a scalar-tensor product.
ToF32(x) ==
    LET k == CHOOSE j \in 0..30 : Pow2(j) = x[2]
    IN  IF x[1] < 0 THEN F32Neg(F32Round(-x[1], -k)) ELSE F32Round(x[1], -k)

\* The float32 product of two positive float32 values: the 48-bit product
\* of the significands, from 12-bit halves, rounded to 24 bits.
F32MulPos(a, b) ==
    LET x1 == a[1] \div 4096
        x0 == a[1] % 4096
        y1 == b[1] \div 4096
        y0 == b[1] % 4096
        mid == x1 * y0 + x0 * y1
        losum == (mid % 4096) * 4096 + x0 * y0
        lo == losum % Pow2(24)
        hi == x1 * y1 + mid \div 4096 + losum \div Pow2(24)
        e == a[2] + b[2]
    IN  IF hi >= Pow2(23)
        THEN F32RoundQuotient(hi, lo, Pow2(23), e + 24)
        ELSE F32RoundQuotient(2 * hi + lo \div Pow2(23), lo % Pow2(23), Pow2(22), e + 23)

\* The float32 product a * b.
F32Mul(a, b) ==
    IF a[1] = 0 \/ b[1] = 0 THEN F32Zero
    ELSE LET p == F32MulPos(<<Abs(a[1]), a[2]>>, <<Abs(b[1]), b[2]>>)
         IN  IF (a[1] < 0) = (b[1] < 0) THEN p ELSE F32Neg(p)

F32Sign(a) == IF a[1] < 0 THEN -1 ELSE IF a[1] = 0 THEN 0 ELSE 1

\* a < b for positive float32 values.
F32LtPos(a, b) == a[2] < b[2] \/ (a[2] = b[2] /\ a[1] < b[1])

F32Lt(a, b) ==
    IF F32Sign(a) # F32Sign(b) THEN F32Sign(a) < F32Sign(b)
    ELSE IF F32Sign(a) = 0 THEN FALSE
    ELSE IF F32Sign(a) = 1 THEN F32LtPos(a, b)
    ELSE F32LtPos(F32Neg(b), F32Neg(a))

F32Le(a, b) == a = b \/ F32Lt(a, b)

\* torch.maximum of two one-element tensors.
F32Max(a, b) == IF F32Lt(a, b) THEN b ELSE a

(***************************************************************************)
(* Bounds of the model                                                     *)
(***************************************************************************)
\* Largest number of importance-sampling rounds in outputs["weights_list"].
MaxRounds == 2

(***************************************************************************)
(* losses.DepthLossType and the module-wide pseudo-depth settings          *)
(***************************************************************************)
\* The tags get_metrics_dict sends to depth_loss (line 91).
RegressionLosses ==
    {"DS_NERF", "URF", "SIMPLE_LOSS", "DEPTH_UNCERTAINTY_WEIGHTED_LOSS",
     "DENSE_DEPTH_PRIORS_LOSS"}

\* The tags that read batch["depth_uncertainty"] (line 98).
UncertaintyLosses == {"DEPTH_UNCERTAINTY_WEIGHTED_LOSS", "DENSE_DEPTH_PRIORS_LOSS"}

\* The tag get_metrics_dict sends to depth_ranking_loss (line 115).
RankingLosses == {"SPARSENERF_RANKING"}

\* The enumeration: the tags the model dispatches on and one it does not.
DepthLossType == RegressionLosses \cup RankingLosses \cup {"OTHER_LOSS"}

\* Values losses.PSEUDODEPTH_COMPATIBLE_LOSSES may hold.  With the force flag
\* unset the list is never read (line 85 short-circuits): one value stands
\* for all.
DefaultCompatible == {"SPARSENERF_RANKING"}
CompatibleChoices ==
    { DefaultCompatible,
      {"SPARSENERF_RANKING", "SIMPLE_LOSS", "OTHER_LOSS"} }

(***************************************************************************)
(* DepthNerfactoModelConfig                                                *)
(***************************************************************************)
\* depth_sigma: the floor of the decay.
DepthSigmas == {RInt(1), RInt(2)}
\* starting_depth_sigma: 1, 4 and 2 - 2^-23, whose products with 3/4 need
\* rounding.
StartingDepthSigmas == {RInt(1), RInt(4), Rat(16777215, 8388608)}
\* sigma_decay_rate: rates below 1: a negative one, two that float32 holds
\* exactly, and 1 - 2^-27 (0.9999999925...), which float32 rounds to 1.0.
SigmaDecayRates == {Rat(-1, 2), Rat(1, 2), Rat(3, 4), Rat(134217727, 134217728)}
\* depth_loss_mult (0.02 is the default).
DepthLossMults == {Rat(1, 50), RInt(3)}

AllConfigs ==
    [ depth_loss_mult      : DepthLossMults,
      depth_sigma          : DepthSigmas,
      should_decay_sigma   : BOOLEAN,
      starting_depth_sigma : StartingDepthSigmas,
      sigma_decay_rate     : SigmaDecayRates,
      depth_loss_type      : DepthLossType ]

\* The sigma fields of the configuration that stands for all where they
\* are not read: a decay from 4 to 1 at rate 3/4.
BaseSigmaConfig(c) ==
    /\ c.should_decay_sigma
    /\ c.depth_sigma = RInt(1)
    /\ c.starting_depth_sigma = RInt(4)
    /\ c.sigma_decay_rate = Rat(3, 4)

\* The configurations drawn.
\*   With should_decay_sigma unset, starting_depth_sigma and sigma_decay_rate
\*   are never read (lines 70-73, 186-187): one value of each stands for all.
\*   The sigma fields are read by populate_modules and _get_sigma only, and
\*   _get_sigma reads no other field; get_metrics_dict calls it for the
\*   regression tags only (lines 91-93): the sigma fields vary under each
\*   regression tag, and one choice stands for all under the other tags.
\*   depth_loss_mult is read by get_loss_dict only (lines 130, 135), which
\*   reads no sigma field: the two vary one at a time; and it is never read
\*   under a tag get_metrics_dict produces no key for.
DepthNerfactoModelConfig ==
    { c \in AllConfigs :
        /\ ~c.should_decay_sigma =>
              /\ c.starting_depth_sigma = RInt(4)
              /\ c.sigma_decay_rate = Rat(3, 4)
        /\ c.depth_loss_type \notin RegressionLosses => BaseSigmaConfig(c)
        /\ c.depth_loss_mult # Rat(1, 50) => BaseSigmaConfig(c)
        /\ c.depth_loss_type \notin RegressionLosses \cup RankingLosses =>
              c.depth_loss_mult = Rat(1, 50) }

(***************************************************************************)
(* Values drawn for the inputs of the operations                           *)
(***************************************************************************)
\* Values the external depth_loss function returns for one round.
LossValues == {RInt(0), RInt(3)}
\* Values the external depth_ranking_loss function returns.
RankingValues == {RInt(0), RInt(1), RInt(3)}
\* Values of self.step at a get_loss_dict call.
StepSamples == {0, 500, 1000, 2000, 5000}

\* Dict keys of the base model that stand for all of its entries.
BaseMetrics == "psnr" :> Zero
BaseLosses == "rgb_loss" :> Zero
NoneDict == [k \in {} |-> Zero]

\* The outputs mappings get_outputs can return: n rounds of distinct
\* weights and ray-sample tensors, directions_norm present or absent.
Outputs ==
    [ weights_list     : {[i \in 1..n |-> i] : n \in 0..MaxRounds},
      ray_samples_list : {[i \in 1..n |-> 10 + i] : n \in 0..MaxRounds},
      directions_norm  : BOOLEAN ]

OutputsSet == {o \in Outputs : Len(o.weights_list) = Len(o.ray_samples_list)}

\* The batches of a training step: depth_image required, depth_uncertainty optional.
TrainBatches == [depth_uncertainty : BOOLEAN]

\* The crop of lines 158-159: a supervised depth 899 wide is cut to its first
\* 548 rows and 898 columns.
SentinelWidth == 899
CropRows == 548
CropCols == 898

\* The shape of a depth tensor (rows, columns, 1) is <<rows, columns>>; None
\* stands for a key the mapping does not have.
None == <<>>
\* Shapes of batch["depth_image"]: one the crop leaves alone, one it narrows,
\* one it narrows and shortens.
DepthImageShapes == {<<4, CropCols>>, <<4, SentinelWidth>>, <<600, SentinelWidth>>}
\* Shapes of outputs["depth"].
OutputDepthShapes == DepthImageShapes
\* Shapes of the optional ground-truth depth images.
GtDepthShapes == {<<4, CropCols>>, <<4, SentinelWidth>>}

\* The outputs of an evaluation render, as get_image_metrics_and_images
\* reads them.
EvalOutputs == [depth : OutputDepthShapes]

\* The batches of an evaluation: depth_image required, the two ground-truth
\* sources optional.
EvalBatches ==
    [ depth_image           : DepthImageShapes,
      gt_depth_image        : GtDepthShapes \cup {None},
      gt_object_depth_image : GtDepthShapes \cup {None} ]

VARIABLES
    config,                        \* self.config, never assigned after construction
    FORCE_PSEUDODEPTH_LOSS,        \* losses.FORCE_PSEUDODEPTH_LOSS
    PSEUDODEPTH_COMPATIBLE_LOSSES, \* losses.PSEUDODEPTH_COMPATIBLE_LOSSES
    depth_sigma,                   \* self.depth_sigma
    training,                      \* self.training
    op,                            \* the operation that ran last
    err,                           \* the exception it raised, or "none"
    args,                          \* the mappings it was called with (None: none)
    metrics_dict,                  \* the mapping the last successful get_metrics_dict
                                   \* returned, which the caller holds (None before)
    metrics_training,              \* self.training when that mapping was produced
    \* What the operation that ran last read, called and returned; each is
    \* empty (0, {}, None, <<>>) when the operation does not produce it.
    step,                          \* self.step as get_loss_dict read it
    outputs,                       \* the keys get_outputs added to the base outputs
    loss_dict,                     \* the mapping get_loss_dict returned
    image_metrics,                 \* the keys get_image_metrics_and_images added
    sigma_calls,                   \* the number of _get_sigma calls it made
    sigma_ret,                     \* the value its _get_sigma call returned
    loss_calls,                    \* the depth_loss calls it made, in order
    direct_queries                 \* the number of direct _get_sigma calls so far, modulo 2

vars ==
    <<config, FORCE_PSEUDODEPTH_LOSS, PSEUDODEPTH_COMPATIBLE_LOSSES, depth_sigma,
      training, step, op, err, args, outputs, metrics_dict, metrics_training, loss_dict,
      image_metrics, sigma_calls, sigma_ret, loss_calls, direct_queries>>

\* The module-wide settings and the configuration are never assigned.
globals == <<config, FORCE_PSEUDODEPTH_LOSS, PSEUDODEPTH_COMPATIBLE_LOSSES>>

(***************************************************************************)
(* populate_modules                                                        *)
(***************************************************************************)
\* The sigma state populate_modules sets: a float32 tensor of one element.
populate_modules(cfg) ==
    IF cfg.should_decay_sigma
    THEN ToF32(cfg.starting_depth_sigma)
    ELSE ToF32(cfg.depth_sigma)

Init ==
    /\ config \in DepthNerfactoModelConfig
    /\ FORCE_PSEUDODEPTH_LOSS \in BOOLEAN
    /\ PSEUDODEPTH_COMPATIBLE_LOSSES \in
          (IF FORCE_PSEUDODEPTH_LOSS THEN CompatibleChoices ELSE {DefaultCompatible})
    /\ depth_sigma = populate_modules(config)
    /\ training = TRUE
    /\ step = 0
    /\ op = "populate_modules"
    /\ err = "none"
    /\ args = NoneDict
    /\ outputs = {}
    /\ metrics_dict = NoneDict
    /\ metrics_training = FALSE
    /\ loss_dict = NoneDict
    /\ image_metrics = {}
    /\ sigma_calls = 0
    /\ sigma_ret = F32Zero
    /\ loss_calls = <<>>
    /\ direct_queries = 0

(***************************************************************************)
(* _get_sigma                                                              *)
(***************************************************************************)
\* Mutant: the decay without the floor of line 190.
get_sigma_state_unfloored(cfg, sigma) ==
    IF ~cfg.should_decay_sigma
    THEN sigma
    ELSE F32Mul(ToF32(cfg.sigma_decay_rate), sigma)

\* self.depth_sigma after a call of _get_sigma (lines 186-191): the scalar
\* rate times the float32 tensor is a float32 product, and the floor is the
\* float32 tensor torch.tensor([depth_sigma]).
get_sigma_state(cfg, sigma) ==
    IF ~cfg.should_decay_sigma
    THEN sigma
    ELSE F32Max(F32Mul(ToF32(cfg.sigma_decay_rate), sigma), ToF32(cfg.depth_sigma))

\* The value _get_sigma returns: self.depth_sigma, read after the update.
get_sigma_return(cfg, sigma) == get_sigma_state(cfg, sigma)

\* What an operation leaves behind when it produces none of these.
NoArgs == args' = NoneDict
NoStep == step' = 0
NoOutputs == outputs' = {}
NoLossDict == loss_dict' = NoneDict
NoImageMetrics == image_metrics' = {}
NoSigmaCall == sigma_calls' = 0 /\ sigma_ret' = F32Zero /\ depth_sigma' = depth_sigma
NoLossCalls == loss_calls' = <<>>

\* A call of populate_modules on the constructed model: the sigma state is
\* set again from the configuration (lines 70-73); the mode of the module and
\* the mapping the caller holds stay.
PopulateModules ==
    /\ depth_sigma' = populate_modules(config)
    /\ sigma_calls' = 0
    /\ sigma_ret' = F32Zero
    /\ op' = "populate_modules"
    /\ err' = "none"
    /\ NoArgs /\ NoStep /\ NoOutputs /\ NoLossDict /\ NoImageMetrics /\ NoLossCalls
    /\ UNCHANGED <<direct_queries, globals, training, metrics_dict, metrics_training>>

\* A direct call of _get_sigma.
GetSigma ==
    /\ depth_sigma' = get_sigma_state(config, depth_sigma)
    /\ sigma_ret' = get_sigma_return(config, depth_sigma)
    /\ sigma_calls' = 1
    /\ direct_queries' = 1 - direct_queries
    /\ op' = "_get_sigma"
    /\ err' = "none"
    /\ NoArgs /\ NoStep /\ NoOutputs /\ NoLossDict /\ NoImageMetrics /\ NoLossCalls
    /\ UNCHANGED <<globals, training, metrics_dict, metrics_training>>

(***************************************************************************)
(* train() / eval() of the module                                          *)
(***************************************************************************)
SetMode(mode) ==
    /\ training # mode
    /\ training' = mode
    /\ op' = IF mode THEN "train" ELSE "eval"
    /\ err' = "none"
    /\ NoArgs /\ NoStep /\ NoOutputs /\ NoLossDict /\ NoImageMetrics /\ NoSigmaCall
    /\ NoLossCalls
    /\ UNCHANGED <<direct_queries, globals, metrics_dict, metrics_training>>

Train == SetMode(TRUE)
Eval == SetMode(FALSE)

(***************************************************************************)
(* get_outputs                                                             *)
(***************************************************************************)
\* The keys get_outputs adds: directions_norm, when the ray bundle has
\* metadata and the metadata has the key (lines 77-78).
get_outputs(has_metadata, has_directions_norm) ==
    IF has_metadata /\ has_directions_norm THEN {"directions_norm"} ELSE {}

GetOutputs ==
    \E has_metadata \in BOOLEAN, has_directions_norm \in BOOLEAN :
        /\ outputs' = get_outputs(has_metadata, has_directions_norm)
        /\ op' = "get_outputs"
        /\ err' = "none"
        /\ NoArgs /\ NoStep /\ NoLossDict /\ NoImageMetrics /\ NoSigmaCall /\ NoLossCalls
        /\ UNCHANGED <<direct_queries, globals, training, metrics_dict, metrics_training>>

(***************************************************************************)
(* get_metrics_dict                                                        *)
(***************************************************************************)
\* Mutant: the allow-list is not consulted.
pseudodepth_error_any_tag(force, compatible, tag) == force

\* The pseudo-depth check of lines 84-87.
pseudodepth_error(force, compatible, tag) == force /\ tag \notin compatible

\* Mutant: sigma is queried in evaluation mode too.
queries_sigma_any_mode(train, force, compatible, tag) ==
    /\ ~pseudodepth_error(force, compatible, tag)
    /\ tag \in RegressionLosses

\* Whether the call reaches line 93 and queries sigma.
queries_sigma(train, force, compatible, tag) ==
    /\ train
    /\ ~pseudodepth_error(force, compatible, tag)
    /\ tag \in RegressionLosses

\* Mutant: the dispatch has no failing fallback branch.
metrics_error_no_fallback(train, force, compatible, tag, o, b) ==
    IF ~train THEN "none"
    ELSE IF pseudodepth_error(force, compatible, tag) THEN "ValueError"
    ELSE IF tag \in RegressionLosses THEN
        IF tag \in UncertaintyLosses /\ ~b.depth_uncertainty THEN "KeyError"
        ELSE IF Len(o.weights_list) > 0 /\ ~o.directions_norm THEN "KeyError"
        ELSE "none"
    ELSE "none"

\* The exception get_metrics_dict raises, or "none" (lines 83-120).  The
\* lookups batch["depth_uncertainty"] (line 99) and outputs["directions_norm"]
\* (line 108, evaluated for the first round) raise KeyError on a missing key.
metrics_error(train, force, compatible, tag, o, b) ==
    IF ~train THEN "none"
    ELSE IF pseudodepth_error(force, compatible, tag) THEN "ValueError"
    ELSE IF tag \in RegressionLosses THEN
        IF tag \in UncertaintyLosses /\ ~b.depth_uncertainty THEN "KeyError"
        ELSE IF Len(o.weights_list) > 0 /\ ~o.directions_norm THEN "KeyError"
        ELSE "none"
    ELSE IF tag \in RankingLosses THEN "none"
    ELSE "NotImplementedError"

\* The depth_loss call of round i (lines 102-113) and the value it returned.
depth_loss_call(o, sigma, vals, i) ==
    [ weights     |-> o.weights_list[i],
      ray_samples |-> o.ray_samples_list[i],
      sigma       |-> sigma,
      ret         |-> vals[i] ]

\* Mutant: the per-round value is not divided by the number of rounds.
depth_loss_step_sum(acc, ret, n) == RAdd(acc, ret)

\* One pass of the loop body: metrics_dict["depth_loss"] += ret / len(weights_list).
depth_loss_step(acc, ret, n) == RAdd(acc, RDivInt(ret, n))

\* metrics_dict["depth_loss"] after rounds 1..i of the loop of lines 101-114,
\* started from 0.0 (line 92).
RECURSIVE depth_loss_acc(_, _, _)
depth_loss_acc(calls, n, i) ==
    IF i = 0 THEN Zero
    ELSE depth_loss_step(depth_loss_acc(calls, n, i - 1), calls[i].ret, n)

\* The key get_metrics_dict adds for a tag in training mode.
regression_key == "depth_loss"
ranking_key == "depth_ranking"

\* Mutant: the depth_loss key is created by the first round of the loop.
metrics_result_key_in_loop(train, tag0, calls, ranking) ==
    IF ~train \/ (tag0 \in RegressionLosses /\ Len(calls) = 0) THEN BaseMetrics
    ELSE IF tag0 \in RegressionLosses
    THEN (regression_key :> depth_loss_acc(calls, Len(calls), Len(calls))) @@ BaseMetrics
    ELSE (ranking_key :> ranking) @@ BaseMetrics

\* The mapping get_metrics_dict returns when it raises nothing.
metrics_result(train, tag, calls, ranking) ==
    IF ~train THEN BaseMetrics
    ELSE IF tag \in RegressionLosses
    THEN (regression_key :> depth_loss_acc(calls, Len(calls), Len(calls))) @@ BaseMetrics
    ELSE (ranking_key :> ranking) @@ BaseMetrics

\* get_metrics_dict(outputs, batch), sigma and sigma_state being what its
\* _get_sigma call returns and leaves behind.  The values the external loss
\* functions return are drawn only for the calls get_metrics_dict makes.
GetMetricsDictCall(o, b, sigma, sigma_state) ==
    LET tag == config.depth_loss_type
        e == metrics_error(training, FORCE_PSEUDODEPTH_LOSS,
                           PSEUDODEPTH_COMPATIBLE_LOSSES, tag, o, b)
        q == queries_sigma(training, FORCE_PSEUDODEPTH_LOSS,
                           PSEUDODEPTH_COMPATIBLE_LOSSES, tag)
    IN
    \E ranking \in (IF training /\ e = "none" /\ tag \in RankingLosses
                    THEN RankingValues ELSE {Zero}) :
    \E vals \in [1..Len(o.weights_list) ->
                    (IF q /\ e = "none" THEN LossValues ELSE {Zero})] :
        LET calls == IF q /\ e = "none"
                     THEN [i \in 1..Len(o.weights_list) |->
                              depth_loss_call(o, sigma, vals, i)]
                     ELSE <<>>
        IN  /\ op' = "get_metrics_dict"
            /\ args' = [outputs |-> o, batch |-> b]
            /\ err' = e
            /\ IF q
               THEN /\ depth_sigma' = sigma_state
                    /\ sigma_ret' = sigma
                    /\ sigma_calls' = 1
               ELSE NoSigmaCall
            /\ loss_calls' = calls
            /\ IF e = "none"
               THEN /\ metrics_dict' = metrics_result(training, tag, calls, ranking)
                    /\ metrics_training' = training
               ELSE UNCHANGED <<metrics_dict, metrics_training>>
            /\ NoStep /\ NoOutputs /\ NoLossDict /\ NoImageMetrics
            /\ UNCHANGED <<direct_queries, globals, training>>

\* The batches and outputs drawn for a get_metrics_dict call.  An entry the
\* call does not read is drawn absent or empty only:
\*   batch["depth_uncertainty"] is read at line 99, under an uncertainty tag;
\*   outputs["weights_list"] is read at line 101, when line 99 has not raised;
\*   outputs["directions_norm"] is read at line 108, in the first round.
UnreadBatch == [depth_uncertainty |-> FALSE]
UnreadOutputs ==
    [weights_list |-> <<>>, ray_samples_list |-> <<>>, directions_norm |-> FALSE]

MetricsBatches(q) ==
    IF q /\ config.depth_loss_type \in UncertaintyLosses
    THEN TrainBatches
    ELSE {UnreadBatch}

MetricsOutputs(q, b) ==
    IF ~q \/ (config.depth_loss_type \in UncertaintyLosses /\ ~b.depth_uncertainty)
    THEN {UnreadOutputs}
    ELSE {o \in OutputsSet : Len(o.weights_list) = 0 => ~o.directions_norm}

GetMetricsDict ==
    \E sigma \in {get_sigma_return(config, depth_sigma)},
       sigma_state \in {get_sigma_state(config, depth_sigma)},
       q \in {queries_sigma(training, FORCE_PSEUDODEPTH_LOSS,
                            PSEUDODEPTH_COMPATIBLE_LOSSES, config.depth_loss_type)} :
    \E b \in MetricsBatches(q) :
    \E o \in MetricsOutputs(q, b) :
        GetMetricsDictCall(o, b, sigma, sigma_state)

(***************************************************************************)
(* get_loss_dict                                                           *)
(***************************************************************************)
\* Mutant: past the last control point the last chord is extended.
np_interp_extrapolating(x, xp, fp) ==
    IF x <= xp[1] THEN fp[1]
    ELSE LET n == Len(xp)
             j == IF x >= xp[n] THEN n - 1
                  ELSE CHOOSE k \in 1..(n - 1) : xp[k] <= x /\ x < xp[k + 1]
             slope == RDivInt(RSub(fp[j + 1], fp[j]), xp[j + 1] - xp[j])
         IN  RAdd(fp[j], RMul(slope, RInt(x - xp[j])))

\* numpy.interp(x, xp, fp) for increasing xp: fp[1] up to xp[1], the last
\* fp from the last xp on, the chord between the two neighbours in between.
np_interp(x, xp, fp) ==
    IF x <= xp[1] THEN fp[1]
    ELSE IF x >= xp[Len(xp)] THEN fp[Len(fp)]
    ELSE LET j == CHOOSE k \in 1..(Len(xp) - 1) : xp[k] <= x /\ x < xp[k + 1]
             slope == RDivInt(RSub(fp[j + 1], fp[j]), xp[j + 1] - xp[j])
         IN  RAdd(fp[j], RMul(slope, RInt(x - xp[j])))

\* The control points of line 131: [0, 2000] and [0, 0.2].
RampSteps == <<0, 2000>>
RampValues == <<Zero, Rat(1, 5)>>

\* The factor np.interp(self.step, [0, 2000], [0, 0.2]) of line 131.
ramp(st) == np_interp(st, RampSteps, RampValues)

\* The assertion of line 127 fails.
loss_assert_fails(train, md) ==
    train /\ ~(DOMAIN md # {} /\ ("depth_loss" \in DOMAIN md \/ "depth_ranking" \in DOMAIN md))

\* loss_dict["depth_ranking"] (lines 129-133).
ranking_contribution(cfg, st, md) ==
    RMul(RMul(cfg.depth_loss_mult, ramp(st)), md["depth_ranking"])

\* loss_dict["depth_loss"] (line 135).
depth_loss_contribution(cfg, md) == RMul(cfg.depth_loss_mult, md["depth_loss"])

\* The mapping get_loss_dict returns when the assertion holds.
loss_result(cfg, train, st, md) ==
    IF ~train THEN BaseLosses
    ELSE (IF "depth_ranking" \in DOMAIN md
          THEN "depth_ranking" :> ranking_contribution(cfg, st, md) ELSE NoneDict)
         @@ (IF "depth_loss" \in DOMAIN md
             THEN "depth_loss" :> depth_loss_contribution(cfg, md) ELSE NoneDict)
         @@ BaseLosses

\* get_loss_dict, given the mapping the caller holds, at some training step.
GetLossDict ==
    \E st \in StepSamples :
        /\ op' = "get_loss_dict"
        /\ step' = st
        /\ IF loss_assert_fails(training, metrics_dict)
           THEN err' = "AssertionError" /\ NoLossDict
           ELSE /\ err' = "none"
                /\ loss_dict' = loss_result(config, training, st, metrics_dict)
        /\ NoArgs /\ NoOutputs /\ NoImageMetrics /\ NoSigmaCall /\ NoLossCalls
        /\ UNCHANGED <<direct_queries, globals, training, metrics_dict, metrics_training>>

(***************************************************************************)
(* get_image_metrics_and_images                                            *)
(***************************************************************************)
Min(a, b) == IF a < b THEN a ELSE b

\* The shape of supervised_depth after lines 158-159: the slice
\* [:548, :898, :] is taken when the width is 899 and only then.
supervised_depth_shape(shape) ==
    IF shape[2] = SentinelWidth
    THEN <<Min(shape[1], CropRows), Min(shape[2], CropCols)>>
    ELSE shape

\* tensor[mask] with a boolean mask of as many dimensions as the tensor
\* raises IndexError unless the two shapes are equal.
mask_index_error(tensor_shape, mask_shape) == tensor_shape # mask_shape

\* The exception lines 145-164 raise, or "none".
\*   line 156: torch.cat along dimension 1 of the two colormap images, which
\*             have the rows and columns of their depths, raises RuntimeError
\*             when the rows differ;
\*   line 163: outputs["depth"][supervised_depth_mask], the mask having the
\*             shape of the supervised depth after the crop.
supervised_error(o, depth_image) ==
    IF o.depth[1] # depth_image[1] THEN "RuntimeError"
    ELSE IF mask_index_error(o.depth, supervised_depth_shape(depth_image))
    THEN "IndexError"
    ELSE "none"

\* The exception get_image_metrics_and_images raises, or "none": that of
\* lines 145-164, or that of outputs["depth"][mask] for the masks of the
\* two ground-truth images (lines 176, 181), when the batch has both.
image_metrics_error(o, b) ==
    IF supervised_error(o, b.depth_image) # "none"
    THEN supervised_error(o, b.depth_image)
    ELSE IF b.gt_object_depth_image # None /\ b.gt_depth_image # None
    THEN IF mask_index_error(o.depth, b.gt_depth_image) THEN "IndexError"
         ELSE IF mask_index_error(o.depth, b.gt_object_depth_image) THEN "IndexError"
         ELSE "none"
    ELSE "none"

\* The keys get_image_metrics_and_images adds to the metrics it returns
\* (lines 162-182).  The values (masked mean squared errors over 7.27) and
\* the colormap image are tensor computations of torch and are not modelled.
image_metrics_keys(b) ==
    {"supervised_depth_mse"}
    \cup (IF b.gt_object_depth_image # None /\ b.gt_depth_image # None
          THEN {"gt_depth_mse", "gt_object_depth_mse"}
          ELSE {})

\* get_image_metrics_and_images(outputs, batch).  A call that raises
\* returns no metrics.
GetImageMetricsAndImagesCall(o, b) ==
    /\ op' = "get_image_metrics_and_images"
    /\ args' = [outputs |-> o, batch |-> b]
    /\ err' = image_metrics_error(o, b)
    /\ image_metrics' = IF image_metrics_error(o, b) = "none"
                        THEN image_metrics_keys(b) ELSE {}
    /\ NoStep /\ NoOutputs /\ NoLossDict /\ NoSigmaCall /\ NoLossCalls
    /\ UNCHANGED <<direct_queries, globals, training, metrics_dict, metrics_training>>

\* The calls drawn.  An entry of the batch the call does not read is drawn
\* in one way only:
\*   a call that raises before line 166 reads no ground-truth entry: both
\*   are drawn absent;
\*   the shape of a ground-truth image is read only when the batch has both
\*   (lines 174-181), and that of gt_object_depth_image only when line 176
\*   has not raised: an unread shape is drawn as the first of GtDepthShapes.
UnreadShape == <<4, CropCols>>

EvalCalls ==
    { c \in EvalOutputs \X EvalBatches :
        LET o == c[1]
            b == c[2]
            both == b.gt_depth_image # None /\ b.gt_object_depth_image # None
        IN  /\ supervised_error(o, b.depth_image) # "none" =>
                  b.gt_depth_image = None /\ b.gt_object_depth_image = None
            /\ ~both => /\ b.gt_depth_image \in {None, UnreadShape}
                        /\ b.gt_object_depth_image \in {None, UnreadShape}
            /\ both /\ mask_index_error(o.depth, b.gt_depth_image) =>
                  b.gt_object_depth_image = UnreadShape }

GetImageMetricsAndImages ==
    \E c \in EvalCalls : GetImageMetricsAndImagesCall(c[1], c[2])

(***************************************************************************)
(* Specifications                                                          *)
(***************************************************************************)
Next ==
    \/ PopulateModules
    \/ Train
    \/ Eval
    \/ GetOutputs
    \/ GetMetricsDict
    \/ GetLossDict
    \/ GetImageMetricsAndImages

\* The model under any sequence of calls of its public operations.
Spec == Init /\ [][Next]_vars

\* The sigma controller alone: set up, and queried again and again.
QueryNext ==
    \/ PopulateModules
    \/ GetSigma

QuerySpec == Init /\ [][QueryNext]_vars /\ WF_vars(GetSigma)

(***************************************************************************)
(* Properties                                                              *)
(***************************************************************************)
tag == config.depth_loss_type
\* The floor and the starting value as the float32 tensors the code builds.
Floor == ToF32(config.depth_sigma)
Start == ToF32(config.starting_depth_sigma)
Decays == config.should_decay_sigma

\* sigma is positive and, under decay, not below the floor.
SigmaInRange(sigma) == F32Lt(F32Zero, sigma) /\ (Decays => F32Le(Floor, sigma))

\* The step is a query of sigma.
Queries == op' = "_get_sigma"

\* C1 as stated: for every configuration (all have a positive depth_sigma, a
\* positive starting_depth_sigma and a decay rate below 1), after
\* populate_modules and before and after every query the sigma state is
\* positive and, with decay enabled, not below depth_sigma, and a query never
\* increases it.
C1_Original ==
    [][ /\ SigmaInRange(depth_sigma)
        /\ SigmaInRange(depth_sigma')
        /\ (Decays /\ Queries => F32Le(depth_sigma', depth_sigma)) ]_vars

\* C1, amended: the sigma state is always positive; with decay enabled and
\* starting_depth_sigma >= depth_sigma it is never below depth_sigma, from
\* populate_modules on, and no query increases it.
C1_SigmaInvariant ==
    [][ /\ F32Lt(F32Zero, depth_sigma) /\ F32Lt(F32Zero, depth_sigma')
        /\ (Decays /\ RLe(config.depth_sigma, config.starting_depth_sigma)
              => /\ F32Le(Floor, depth_sigma)
                 /\ F32Le(Floor, depth_sigma')
                 /\ (Queries => F32Le(depth_sigma', depth_sigma))) ]_vars

\* A decaying sigma that started above the floor and has been queried.
C1_Witness ==
    /\ Decays
    /\ RLt(config.depth_sigma, config.starting_depth_sigma)
    /\ op = "_get_sigma"
    /\ F32Lt(depth_sigma, Start)
    /\ F32Lt(Floor, depth_sigma)

\* The configurations of C2: decay enabled, rate in (0, 1), start above the floor.
ConvergingConfig ==
    /\ Decays
    /\ RLt(Zero, config.sigma_decay_rate) /\ RLt(config.sigma_decay_rate, RInt(1))
    /\ RLt(config.depth_sigma, config.starting_depth_sigma)

\* C2: for a converging configuration the first query after
\* populate_modules returns max(r * s, f) (as float32), each query returns
\* at most what the one before returned, and, once populate_modules is not
\* called again, from some query on every query returns f.
C2_SigmaConvergence ==
    /\ [][ ConvergingConfig /\ Queries =>
            /\ (op = "populate_modules" =>
                  sigma_ret' = F32Max(F32Mul(ToF32(config.sigma_decay_rate), Start), Floor))
            /\ (op = "_get_sigma" => F32Le(sigma_ret', sigma_ret)) ]_vars
    /\ (ConvergingConfig =>
          \/ []<>(op = "populate_modules")
          \/ <>[](op = "_get_sigma" /\ sigma_ret = Floor))

Forced == FORCE_PSEUDODEPTH_LOSS
Compatible == tag \in PSEUDODEPTH_COMPATIBLE_LOSSES
Recognized == tag \in RegressionLosses \cup RankingLosses
MetricsCall == op = "get_metrics_dict"
LossCall == op = "get_loss_dict"
ImageCall == op = "get_image_metrics_and_images"

\* C3 as stated: a get_metrics_dict call with the force flag set and an
\* incompatible tag raises the configuration error, and no call with a
\* compatible tag raises it.
C3_Original ==
    MetricsCall =>
        /\ (Forced /\ ~Compatible => err = "ValueError")
        /\ (Compatible => err # "ValueError")

\* C3, amended: a training-mode get_metrics_dict call with the force flag
\* set and an incompatible tag raises the configuration error (an
\* evaluation-mode call makes no check and returns); no call with a
\* compatible tag raises it.
C3_PseudodepthError ==
    MetricsCall =>
        /\ (training /\ Forced /\ ~Compatible => err = "ValueError")
        /\ (Compatible => err # "ValueError")

\* A training-mode call that raised the configuration error.
C3_Witness ==
    MetricsCall /\ training /\ Forced /\ ~Compatible /\ err = "ValueError"

\* C4 as stated: whatever the force flag and the mode, a get_metrics_dict
\* call with an unrecognized tag raises the not-implemented error.
C4_Original == MetricsCall /\ ~Recognized => err = "NotImplementedError"

\* C4, amended: a training-mode get_metrics_dict call with an unrecognized
\* tag never returns normally: it raises the not-implemented error when the
\* pseudo-depth check passes (flag unset, or tag compatible) and the
\* configuration error when it does not; an evaluation-mode call returns.
C4_UnknownTag ==
    MetricsCall /\ ~Recognized =>
        err = (IF ~training THEN "none"
               ELSE IF Forced /\ ~Compatible THEN "ValueError"
               ELSE "NotImplementedError")

\* An unrecognized, compatible tag under the force flag raised not-implemented.
C4_Witness ==
    MetricsCall /\ training /\ ~Recognized /\ Forced /\ Compatible
    /\ err = "NotImplementedError"

\* C5: a training-mode get_metrics_dict call returns or raises the
\* configuration error or the not-implemented error, and nothing else.
C5_OnlyDocumentedFailures ==
    MetricsCall /\ training => err \in {"none", "ValueError", "NotImplementedError"}

RECURSIVE SumOfReturns(_, _)
SumOfReturns(calls, i) ==
    IF i = 0 THEN Zero ELSE RAdd(SumOfReturns(calls, i - 1), calls[i].ret)

\* A training-mode regression call that returned after n >= 1 rounds.
RegressionDone ==
    /\ MetricsCall /\ training /\ err = "none"
    /\ tag \in RegressionLosses
    /\ Len(args.outputs.weights_list) >= 1

\* C6: after a training-mode get_metrics_dict with a regression tag and
\* n >= 1 rounds, depth_loss is the sum of the n values depth_loss
\* returned divided by n, and call i received weights_list[i],
\* ray_samples_list[i] and the sigma value the one query returned.
C6_DepthLossIsMean ==
    RegressionDone =>
        LET n == Len(args.outputs.weights_list)
        IN  /\ Len(loss_calls) = n
            /\ metrics_dict["depth_loss"] = RDivInt(SumOfReturns(loss_calls, n), n)
            /\ \A i \in 1..n :
                  /\ loss_calls[i].weights = args.outputs.weights_list[i]
                  /\ loss_calls[i].ray_samples = args.outputs.ray_samples_list[i]
                  /\ loss_calls[i].sigma = sigma_ret

\* Two rounds with different values, whose mean is not their sum.
C6_Witness ==
    /\ RegressionDone
    /\ Len(loss_calls) = 2
    /\ loss_calls[1].ret # loss_calls[2].ret
    /\ metrics_dict["depth_loss"] = Rat(3, 2)

\* The ramp of C7: 0.2 * step / 2000 up to step 2000 and 0.2 from there on.
ClaimedRamp(st) == IF st <= 2000 THEN Rat(st, 10000) ELSE Rat(1, 5)

\* A training-mode get_loss_dict that found depth_ranking in the metrics.
RankingBlended ==
    LossCall /\ training /\ err = "none" /\ "depth_ranking" \in DOMAIN metrics_dict

\* C7: loss_dict["depth_ranking"] = depth_loss_mult * ramp(step) * depth_ranking
\* with the clamped ramp: 0 at step 0, mult * 0.1 * depth_ranking at step
\* 1000, the same value at steps 2000 and 5000, and the ramp never decreases.
C7_RankingRamp ==
    /\ RankingBlended =>
        LET mult == config.depth_loss_mult
            ranking == metrics_dict["depth_ranking"]
            scaled(f) == RMul(RMul(mult, f), ranking)
        IN  /\ loss_dict["depth_ranking"] = scaled(ClaimedRamp(step))
            /\ (step = 0 => loss_dict["depth_ranking"] = Zero)
            /\ (step = 1000 => loss_dict["depth_ranking"] = scaled(Rat(1, 10)))
            /\ (step >= 2000 => loss_dict["depth_ranking"] = scaled(Rat(1, 5)))
    /\ \A a \in StepSamples, b \in StepSamples : a <= b => RLe(ramp(a), ramp(b))

\* A nonzero ranking loss blended at step 5000.
C7_Witness ==
    RankingBlended /\ step = 5000 /\ metrics_dict["depth_ranking"] # Zero

\* C8: a get_image_metrics_and_images call that returns has added
\* gt_depth_mse exactly when the batch has gt_depth_image,
\* gt_object_depth_mse exactly when it has gt_object_depth_image, and
\* supervised_depth_mse always.
C8_PerSourceMetrics ==
    ImageCall /\ err = "none" =>
        /\ ("gt_depth_mse" \in image_metrics <=> args.batch.gt_depth_image # None)
        /\ ("gt_object_depth_mse" \in image_metrics
              <=> args.batch.gt_object_depth_image # None)
        /\ "supervised_depth_mse" \in image_metrics

\* The caller holds a mapping a get_metrics_dict call returned.
HoldsMetrics == DOMAIN metrics_dict # {}

\* C9 as stated: a training-mode get_loss_dict given the mapping the
\* preceding successful get_metrics_dict returned never fails its assertion.
C9_Original == LossCall /\ training /\ HoldsMetrics => err # "AssertionError"

\* C9, amended: a training-mode get_loss_dict given the mapping the
\* preceding successful get_metrics_dict returned in training mode finds
\* exactly one of depth_loss and depth_ranking in it and does not fail its
\* assertion (a mapping returned in evaluation mode has neither key).
C9_AssertionHolds ==
    /\ LossCall /\ training /\ HoldsMetrics /\ metrics_training =>
        /\ err = "none"
        /\ ("depth_loss" \in DOMAIN metrics_dict) # ("depth_ranking" \in DOMAIN metrics_dict)
    /\ HoldsMetrics /\ ~metrics_training =>
        DOMAIN metrics_dict \cap {"depth_loss", "depth_ranking"} = {}

\* A training-mode get_loss_dict that blended the depth_loss of such a mapping.
C9_Witness ==
    /\ LossCall /\ training /\ HoldsMetrics /\ metrics_training /\ err = "none"
    /\ "depth_loss" \in DOMAIN loss_dict

\* The step is the one query of a training-mode get_metrics_dict with a
\* regression tag that passes the pseudo-depth check.
MetricsQuery ==
    /\ op' = "get_metrics_dict"
    /\ training
    /\ tag \in RegressionLosses
    /\ ~(Forced /\ ~Compatible)

\* C10 as stated: a step changes the sigma state only by the one query of a
\* training-mode get_metrics_dict with a regression tag that passes the
\* pseudo-depth check, to max(rate * sigma, floor); no other operation
\* queries or changes it, and with decay disabled nothing changes it and the
\* query returns the configured depth_sigma.
C10_Original ==
    [][ /\ sigma_calls' = (IF MetricsQuery THEN 1 ELSE 0)
        /\ (~MetricsQuery => depth_sigma' = depth_sigma)
        /\ (MetricsQuery /\ Decays =>
              /\ depth_sigma' =
                   F32Max(F32Mul(ToF32(config.sigma_decay_rate), depth_sigma), Floor)
              /\ sigma_ret' = depth_sigma')
        /\ (~Decays => depth_sigma' = depth_sigma /\ depth_sigma' = Floor)
        /\ (MetricsQuery /\ ~Decays => sigma_ret' = Floor) ]_vars

\* C10, amended: a step changes the sigma state only by that one query, to
\* max(rate * sigma, floor), or by a call of populate_modules, which makes
\* no query and sets it back to its initial value; no other operation
\* queries or changes it, and with decay disabled nothing changes it and the
\* query returns the configured depth_sigma.
C10_SigmaFrame ==
    [][ /\ sigma_calls' = (IF MetricsQuery THEN 1 ELSE 0)
        /\ (op' = "populate_modules" =>
              depth_sigma' = (IF Decays THEN Start ELSE Floor))
        /\ (~MetricsQuery /\ op' # "populate_modules" => depth_sigma' = depth_sigma)
        /\ (MetricsQuery /\ Decays =>
              /\ depth_sigma' =
                   F32Max(F32Mul(ToF32(config.sigma_decay_rate), depth_sigma), Floor)
              /\ sigma_ret' = depth_sigma')
        /\ (~Decays => depth_sigma' = depth_sigma /\ depth_sigma' = Floor)
        /\ (MetricsQuery /\ ~Decays => sigma_ret' = Floor) ]_vars

\* A query that changed the sigma state although the call then raised KeyError.
C10_Witness ==
    /\ MetricsCall /\ sigma_calls = 1 /\ Decays
    /\ err = "KeyError"
    /\ F32Lt(depth_sigma, Start)

====
